---- MODULE Spec2Model ----
(***************************************************************************)
(* Multi-task fine-tuning scheduler of src/transferprediction/run_glue.py: *)
(* the split-mode batch assembler (train.collate_func), the training loop  *)
(* of train() with gradient accumulation, checkpointing and resume, and    *)
(* the checkpoint naming of save_model().                                  *)
(***************************************************************************)
EXTENDS Integers, Sequences, FiniteSets, TLC

\* ------------------------------------------------------------------ bounds
NumTasks == 3        \* len(args.data_dir_list) in the assembler model
MaxBatch == 3        \* longest raw batch handed to the collate function
MaxDirLen == 3       \* longest args.output_dir in the naming model
MaxStep == 12        \* largest global_step in the naming model
MaxLen == 4          \* largest len(train_dataloader)
MaxAccum == 3        \* largest args.gradient_accumulation_steps
MaxMaxSteps == 2     \* largest positive args.max_steps
MaxEpochs == 2       \* largest configured args.num_train_epochs
MaxRuns == 2         \* invocations of train() in one behaviour
MaxTasks == 2        \* longest args.task_names handed to evaluate()
MaxLabels == 3       \* largest entry of args.num_label_list
MaxEvalBatches == 2  \* largest len(eval_dataloader)
NumProcs == 2        \* processes of a distributed run
MaxTrainTasks == 2   \* longest args.task_names of a distributed run
MaxGpus == 2         \* largest args.n_gpu
MaxExamples == 3     \* most examples in the train or dev file of a task
MaxLoadRuns == 2     \* invocations of the program over one data directory
MaxCheckpoints == 2  \* most checkpoints evaluated at the end of main()

VARIABLES
    \* --- one training step seen from the batch assembler (train, l.395-452)
    step_pc,         \* "fetch" | "forward" | "backward" | "raised"
    raw_batch,       \* the list of instances the DataLoader hands to collate_fn
    batch_all,       \* what collate_fn returned (list of collated sub-batches)
    dispatched,      \* the task_index tensors of the forward passes of this step
    step_args,       \* n_gpu, gradient_accumulation_steps, num_label_list, and dense:
                     \* the DataLoader has the dense collate_fn (l.218-229)
    loss,            \* the loss of the step: None, or the sub_losses summed and
                     \* the number it was divided by
    label_counts,    \* history: model.num_labels at each forward pass of this step
    \* --- checkpoint naming (save_model l.149-154, train l.348-350)
    ck_pc,           \* "args" | "saved" | "parsed"
    ck_dir,          \* args.output_dir of the saving run
    ck_step,         \* the global_step handed to save_model
    ck_path,         \* the directory save_model created
    ck_parsed,       \* what the resume logic reads back from ck_path
    \* --- the training loop of train() (l.239-251, l.344-506)
    train_pc,        \* "idle" | "epochs" | "steps" | "epoch_end" | "return" | "done" | "failed"
    args,            \* gradient_accumulation_steps, max_steps, num_train_epochs,
                     \* model_name_or_path, start_again
    dataloader_len,  \* len(train_dataloader)
    epoch,           \* loop variable of train_iterator
    step,            \* loop variable of the inner enumerate
    global_step,
    epochs_trained,
    steps_trained_in_current_epoch,
    checkpoints,     \* checkpoint directories on disk: path -> what was saved
    runs,            \* number of invocations of train() so far
    start_step,      \* history: global_step at the start of the loop of this run
    updates,         \* history: optimizer updates applied by this run
    passlog,         \* history: the forward/backward passes of this run
    savelog,         \* history: the save_model calls of this run
    epochs_done,     \* history: the epochs whose body this run has left
    optimizer_loaded,   \* optimizer.pt / scheduler.pt were loaded (l.286-300)
    in_epoch_iterator,  \* "none" | "open" | "closed": the tqdm over the dataloader
    evallog,         \* history: the evaluate() calls made by train() in this run
    \* --- main() (l.984-1205), over the invocations made on one output_dir
    main_pc,         \* "start" | "guard" | "tasks" | "load_model" | "datasets" | "train"
                     \* | "save" | "eval" | "results" | "exit_ok" | "exit_error" | "off"
    main_args,       \* the parsed command line of this invocation
    output_files,    \* the files of args.output_dir on disk
    files_at_start,  \* history: output_files when this invocation started
    loaded,          \* history: what this invocation has loaded into memory
    trained,         \* history: a training step has run in this invocation
    evaluated,       \* history: evaluate() has run inference in this invocation
    written,         \* history: the files this invocation has written
    assembler,       \* "none" | "dense" | "split": the collate_fn train() chose
    rerun,           \* history: same arguments as the previous invocation, which
                     \* ran to its end and wrote results.json
    \* --- evaluate() (l.519-639)
    eval_pc,         \* "outer" | "inner" | "batches" | "done" | "off"
    eval_args,       \* task_names and num_label_list
    eval_task_index, \* loop variable of the outer loop (from 1)
    pairs,           \* zip(eval_task_names, eval_outputs_dirs) of the outer iteration
    index,           \* loop variable of the inner loop (from 1)
    eval_task,
    eval_output_dir, \* "" for args.output_dir, "-MM" for args.output_dir + "-MM"
    n_batches,       \* len(eval_dataloader)
    nb_eval_steps,
    num_labels,      \* model.num_labels
    results,         \* the eval_tasks whose metrics were merged by results.update
    full_results,
    inferences,      \* history: one entry per model(**inputs) call
    \* --- distributed loading (main l.1080-1130, load_and_cache_examples l.641-718)
    dist_pc,         \* per rank: "start" | "wait_main" | "load_model" | "wait_model" |
                     \* "task" | "wait_task" | "check" | "convert" | "saving" | "after"
                     \* | "wait_after" | "done" | "off"
    barriers,        \* per rank: the torch.distributed.barrier() calls made so far
    task_i,          \* per rank: index of the training task being loaded (from 1)
    n_tasks,         \* len(args.task_names)
    overwrite_cache,
    cache,           \* per task, cached_features_file: "absent" | "partial" | "complete"
    cache_at_start,  \* history: cache when the processes started
    cache_writes,    \* history: <<rank, task>> of every torch.save of features
    cache_reads,     \* history: the torch.load calls on cached_features_file
    finished0,       \* history: the tasks rank 0 is through loading or writing
    \* --- load_and_cache_examples in one process (l.642-741, main l.1003-1004)
    load_pc,         \* "off" | "main" | "check" | "convert" | "saving" | "done" | "failed"
    load_args,       \* short, overwrite_cache, evaluate, per_gpu_train_batch_size
    n_examples,      \* number of examples in the task's train file and dev file
    cache_file,      \* per split, cached_features_file: its state and its features
    features,        \* the features the call has got
    load_source,     \* history: "none" | "cache" | "examples", where they came from
    load_runs,       \* invocations so far
    \* --- the end of main() in the processes of a distributed run (l.1161-1205)
    res_pc,          \* per rank: "off" | "eval" | "open" | "write" | "done"
    res_args,        \* do_eval, and the number of checkpoints to evaluate
    res_results,     \* per rank: the dictionary results, as its items in order
    results_json,    \* results.json of args.output_dir: exists, content
    results_writes   \* history: the ranks that wrote to results.json, in order

varsCollate == <<step_pc, raw_batch, batch_all, dispatched, step_args, loss,
                 label_counts>>

varsCkpt == <<ck_pc, ck_dir, ck_step, ck_path, ck_parsed>>

varsTrain == <<train_pc, args, dataloader_len, epoch, step, global_step,
               epochs_trained, steps_trained_in_current_epoch, checkpoints, runs,
               start_step, updates, passlog, savelog, epochs_done,
               optimizer_loaded, in_epoch_iterator, evallog>>

varsMain == <<main_pc, main_args, output_files, files_at_start, loaded, trained,
              evaluated, written, assembler, rerun>>

varsEval == <<eval_pc, eval_args, eval_task_index, pairs, index, eval_task,
              eval_output_dir, n_batches, nb_eval_steps, num_labels, results,
              full_results, inferences>>

varsDist == <<dist_pc, barriers, task_i, n_tasks, overwrite_cache, cache,
              cache_at_start, cache_writes, cache_reads, finished0>>

varsLoad == <<load_pc, load_args, n_examples, cache_file, features, load_source,
              load_runs>>

varsRes == <<res_pc, res_args, res_results, results_json, results_writes>>

vars == <<step_pc, raw_batch, batch_all, dispatched, step_args, loss, label_counts,
          ck_pc, ck_dir, ck_step, ck_path, ck_parsed,
          train_pc, args, dataloader_len, epoch, step, global_step,
          epochs_trained, steps_trained_in_current_epoch, checkpoints, runs,
          start_step, updates, passlog, savelog, epochs_done,
          optimizer_loaded, in_epoch_iterator, evallog,
          main_pc, main_args, output_files, files_at_start, loaded, trained,
          evaluated, written, assembler, rerun,
          eval_pc, eval_args, eval_task_index, pairs, index, eval_task,
          eval_output_dir, n_batches, nb_eval_steps, num_labels, results,
          full_results, inferences,
          dist_pc, barriers, task_i, n_tasks, overwrite_cache, cache,
          cache_at_start, cache_writes, cache_reads, finished0,
          load_pc, load_args, n_examples, cache_file, features, load_source,
          load_runs,
          res_pc, res_args, res_results, results_json, results_writes>>

\* ------------------------------------------------------------ pure helpers
RECURSIVE SumSeq(_)
SumSeq(s) == IF s = <<>> THEN 0 ELSE Head(s) + SumSeq(Tail(s))

\* python's instance[-1]
Last(s) == s[Len(s)]

\* An instance is <<id, task_index>>: the features stand for themselves, the
\* last component is the index of the task in args.data_dir_list (0-based).
\* Raw batches: every list of at most MaxBatch instances with distinct ids
\* (the sampler hands out dataset positions), the empty list included.
RawBatches ==
    UNION { { [i \in 1..n |-> <<i, t[i]>>] : t \in [1..n -> 0..(NumTasks - 1)] }
            : n \in 0..MaxBatch }

\* ------------------------------------------------------- train.collate_func
\* Mutant of BatchesByTask: the per-task lists are one shared list (the
\* `[[]] * n` aliasing slip), so every group receives every instance.
BatchesByTaskAliased(batch) == [t \in 1..NumTasks |-> batch]

\* Mutant of BatchesByTask: groups are created on demand, in the order in
\* which their task is first met in the raw batch, followed by the empty ones.
RECURSIVE FirstSeen(_, _)
FirstSeen(batch, seen) ==
    IF batch = <<>> THEN seen
    ELSE LET t == Last(Head(batch))
         IN  IF \E i \in 1..Len(seen) : seen[i] = t
             THEN FirstSeen(Tail(batch), seen)
             ELSE FirstSeen(Tail(batch), Append(seen, t))

BatchesByTaskFirstSeen(batch) ==
    LET order == FirstSeen(batch, <<>>)
    IN  [k \in 1..NumTasks |->
            IF k <= Len(order)
            THEN LET OfTask(instance) == Last(instance) = order[k]
                 IN  SelectSeq(batch, OfTask)
            ELSE <<>>]

\* l.191-194: one list per configured task, filled in raw-batch order.
BatchesByTask(batch) ==
    [t \in 1..NumTasks |->
        LET OfTask(instance) == Last(instance) = t - 1
        IN  SelectSeq(batch, OfTask)]

\* torch default_collate: a list of instances becomes one tuple of columns.
DefaultCollate(batch) ==
    <<[i \in 1..Len(batch) |-> batch[i][1]], [i \in 1..Len(batch) |-> batch[i][2]]>>

\* Mutant of CollateFunc: the emptiness check is missing.
CollateFuncNoRaise(batch) ==
    LET batches_by_task == BatchesByTask(batch)
        NonEmpty(cur_batch) == Len(cur_batch) # 0
        kept == SelectSeq(batches_by_task, NonEmpty)
    IN  [raised |-> FALSE,
         value  |-> [i \in 1..Len(kept) |-> DefaultCollate(kept[i])]]

\* Mutant of CollateFunc: the empty groups are not dropped.
CollateFuncKeepsEmpty(batch) ==
    LET batches_by_task == BatchesByTask(batch)
    IN  IF batch = <<>>
        THEN [raised |-> TRUE, value |-> <<>>]
        ELSE [raised |-> FALSE,
              value  |-> [i \in 1..Len(batches_by_task) |->
                             DefaultCollate(batches_by_task[i])]]

\* l.183-212.  raised = TRUE stands for `raise Exception("Empty task lists")`.
CollateFunc(batch) ==
    LET batches_by_task == BatchesByTask(batch)
        batch_lens == [i \in 1..Len(batches_by_task) |-> Len(batches_by_task[i])]
        NonEmpty(cur_batch) == Len(cur_batch) # 0
        kept == IF \E i \in 1..Len(batch_lens) : batch_lens[i] = 0
                THEN SelectSeq(batches_by_task, NonEmpty)
                ELSE batches_by_task
    IN  IF SumSeq(batch_lens) = 0
        THEN [raised |-> TRUE, value |-> <<>>]
        ELSE [raised |-> FALSE,
              value  |-> [i \in 1..Len(kept) |-> DefaultCollate(kept[i])]]


\* ------------------------------------------------ checkpoint naming, parsing
\* Paths are sequences of one-character strings.
DigitChars == <<"0", "1", "2", "3", "4", "5", "6", "7", "8", "9">>

IsDigit(c) == \E d \in 1..10 : DigitChars[d] = c

DigitValue(c) == (CHOOSE d \in 1..10 : DigitChars[d] = c) - 1

\* "{}".format(n) for n >= 0
RECURSIVE Format(_)
Format(n) ==
    IF n < 10 THEN <<DigitChars[n + 1]>>
    ELSE Format(n \div 10) \o <<DigitChars[(n % 10) + 1]>>

CheckpointPrefix == <<"c", "h", "e", "c", "k", "p", "o", "i", "n", "t", "-">>

\* os.path.join(a, b) for a relative b
PathJoin(a, b) ==
    IF a = <<>> \/ Last(a) = "/" THEN a \o b ELSE a \o <<"/">> \o b

\* save_model l.150-152: the directory a checkpoint of global_step goes to
CheckpointDir(output_dir, g) ==
    PathJoin(output_dir, CheckpointPrefix \o Format(g))

\* s.split(sep)[-1]: what follows the last sep (all of s when there is none)
RECURSIVE AfterLast(_, _)
AfterLast(s, sep) ==
    IF \E i \in 1..Len(s) : s[i] = sep
    THEN AfterLast(Tail(s), sep)
    ELSE s

\* s.split(sep)[0]: what precedes the first sep (all of s when there is none)
RECURSIVE BeforeFirst(_, _)
BeforeFirst(s, sep) ==
    IF s = <<>> \/ Head(s) = sep THEN <<>>
    ELSE <<Head(s)>> \o BeforeFirst(Tail(s), sep)

\* s.split(sep)[1]: what lies between the first and the second sep
AfterFirst(s, sep) ==
    LET k == Len(BeforeFirst(s, sep))
    IN  IF k = Len(s) THEN <<>> ELSE BeforeFirst(SubSeq(s, k + 2, Len(s)), sep)

ParseError == -1

\* int(s) on the alphabet of the model: decimal digits, ValueError otherwise
RECURSIVE DigitsValue(_, _)
DigitsValue(s, acc) ==
    IF s = <<>> THEN acc
    ELSE DigitsValue(Tail(s), 10 * acc + DigitValue(Head(s)))

ToInt(s) ==
    IF s # <<>> /\ \A i \in 1..Len(s) : IsDigit(s[i])
    THEN DigitsValue(s, 0)
    ELSE ParseError

\* Mutant of ResumeStep: the field after the first "-" is read, not the last.
ResumeStepFirstDash(path) == ToInt(BeforeFirst(AfterFirst(path, "-"), "/"))

\* train l.350: int(args.model_name_or_path.split("-")[-1].split("/")[0])
ResumeStep(path) == ToInt(BeforeFirst(AfterLast(path, "-"), "/"))

DirChars == {"a", "7", "-", "/"}

OutputDirs == UNION { [1..n -> DirChars] : n \in 0..MaxDirLen }

InitCkpt ==
    /\ ck_pc = "args"
    /\ ck_dir = <<>>
    /\ ck_step = 0
    /\ ck_path = <<>>
    /\ ck_parsed = 0

\* save_model is called with some output directory and some global_step
CkSave ==
    /\ ck_pc = "args"
    /\ \E d \in OutputDirs, g \in 0..MaxStep :
          /\ ck_dir' = d
          /\ ck_step' = g
          /\ ck_path' = CheckpointDir(d, g)
    /\ ck_pc' = "saved"
    /\ UNCHANGED ck_parsed
    /\ UNCHANGED <<varsCollate, varsTrain, varsMain, varsEval, varsDist, varsLoad, varsRes>>

\* a later run is given that directory as args.model_name_or_path
CkResume ==
    /\ ck_pc = "saved"
    /\ ck_parsed' = ResumeStep(ck_path)
    /\ ck_pc' = "parsed"
    /\ UNCHANGED <<ck_dir, ck_step, ck_path>>
    /\ UNCHANGED <<varsCollate, varsTrain, varsMain, varsEval, varsDist, varsLoad, varsRes>>

NextCkpt == CkSave \/ CkResume

\* ------------------------------------------ one training step, batch side
\* l.227-229: the dense collate_fn, one default_collate of the whole raw
\* batch (which raises on an empty list)
DenseCollate(batch) ==
    IF batch = <<>>
    THEN [raised |-> TRUE, value |-> <<>>]
    ELSE [raised |-> FALSE, value |-> <<DefaultCollate(batch)>>]

\* l.218-237: the collate_fn of the DataLoader
Assemble(a, batch) == IF a.dense THEN DenseCollate(batch) ELSE CollateFunc(batch)

\* args.num_label_list (main l.1051-1061), by task index from 1: all tasks
\* with the same number of labels, or with different ones
NumLabelLists ==
    {[t \in 1..NumTasks |-> MaxLabels],
     [t \in 1..NumTasks |-> ((t - 1) % MaxLabels) + 1]}

\* One device or several; no accumulation or the longest window.
StepArgs ==
    [n_gpu                       : {1, MaxGpus},
     gradient_accumulation_steps : {1, MaxAccum},
     dense                       : BOOLEAN,
     num_label_list              : NumLabelLists]

\* loss = None (l.407)
NoLoss == [is_none |-> TRUE, terms |-> <<>>, divisor |-> 1]

\* l.448-452 for the k-th sub-batch, loss not None:
\* loss = sub_loss if loss is None else loss + sub_loss
AddSubLoss(l, k) ==
    IF l.is_none
    THEN [is_none |-> FALSE, terms |-> <<k>>, divisor |-> 1]
    ELSE [l EXCEPT !.terms = Append(l.terms, k)]

\* l.454-456
ScaleLoss(l, a) ==
    IF a.gradient_accumulation_steps > 1
    THEN [l EXCEPT !.divisor = l.divisor * a.gradient_accumulation_steps]
    ELSE l

\* l.448-449: loss.mean() with more than one GPU raises AttributeError
\* while loss is still None
MeanRaises(l, a) == a.n_gpu > 1 /\ l.is_none

\* Mutant of ModelLabelCounts: the label count of the first configured task.
ModelLabelCountsFirstTask(a, task_index) == {a.num_label_list[1]}

\* l.414-417: model.num_labels = args.num_label_list[all_tasks_in_batch[0]],
\* all_tasks_in_batch = list(set(task_index.tolist())); which element of a set
\* comes first is left to the interpreter, so any task of the batch may.
ModelLabelCounts(a, task_index) ==
    {a.num_label_list[task_index[i] + 1] : i \in 1..Len(task_index)}

\* The step model of a split-mode run on one device, without accumulation.
SplitStepArgs ==
    [n_gpu |-> 1, gradient_accumulation_steps |-> 1, dense |-> FALSE,
     num_label_list |-> [t \in 1..NumTasks |-> ((t - 1) % MaxLabels) + 1]]

BeforeStep ==
    /\ step_pc = "fetch"
    /\ raw_batch = <<>>
    /\ batch_all = <<>>
    /\ dispatched = <<>>
    /\ loss = NoLoss
    /\ label_counts = <<>>

InitCollate == BeforeStep /\ step_args = SplitStepArgs

\* Any devices, any accumulation window, either collate_fn.
InitStep == BeforeStep /\ step_args \in StepArgs

\* l.395 and l.407: the DataLoader draws a raw batch and runs collate_fn on
\* it; an exception of collate_fn leaves the loop before its body runs.
\* (Inside an evaluate() call of train(), l.386-390, no batch is drawn.)
Fetch ==
    /\ step_pc = "fetch"
    /\ eval_pc = "off"
    /\ \E batch \in RawBatches :
          LET r == Assemble(step_args, batch)
          IN  /\ raw_batch' = batch
              /\ dispatched' = <<>>
              /\ label_counts' = <<>>
              /\ loss' = NoLoss
              /\ IF r.raised
                 THEN /\ step_pc' = "raised"
                      /\ batch_all' = <<>>
                 ELSE /\ step_pc' = "forward"
                      /\ batch_all' = r.value
    /\ UNCHANGED step_args
    /\ UNCHANGED <<varsCkpt, varsTrain, varsMain, varsEval, varsDist, varsLoad, varsRes>>

\* l.408-452: one forward pass per sub-batch, in list order; the task set of
\* the sub-batch is list(set(task_index.tolist())).  step_pc = "error" stands
\* for the AttributeError of l.449.
Forward ==
    /\ step_pc = "forward"
    /\ Len(dispatched) < Len(batch_all)
    /\ LET batch_with_task == batch_all[Len(dispatched) + 1]
           task_index == Last(batch_with_task)
       IN  /\ dispatched' = Append(dispatched,
                                   {task_index[i] : i \in 1..Len(task_index)})
           /\ \E n \in ModelLabelCounts(step_args, task_index) :
                 label_counts' = Append(label_counts, n)
    /\ IF MeanRaises(loss, step_args)
       THEN step_pc' = "error" /\ UNCHANGED loss
       ELSE /\ loss' = AddSubLoss(loss, Len(dispatched) + 1)
            /\ UNCHANGED step_pc
    /\ UNCHANGED <<raw_batch, batch_all, step_args>>
    /\ UNCHANGED <<varsCkpt, varsTrain, varsMain, varsEval, varsDist, varsLoad, varsRes>>

\* l.454-464: the loop over the sub-batches is over, the loss is divided and
\* back-propagated.
Backward ==
    /\ step_pc = "forward"
    /\ Len(dispatched) = Len(batch_all)
    /\ loss' = ScaleLoss(loss, step_args)
    /\ step_pc' = "backward"
    /\ UNCHANGED <<raw_batch, batch_all, dispatched, step_args, label_counts>>
    /\ UNCHANGED <<varsCkpt, varsTrain, varsMain, varsEval, varsDist, varsLoad, varsRes>>

\* next iteration of the inner loop
NextStep ==
    /\ step_pc = "backward"
    /\ step_pc' = "fetch"
    /\ UNCHANGED <<raw_batch, batch_all, dispatched, step_args, loss, label_counts>>
    /\ UNCHANGED <<varsCkpt, varsTrain, varsMain, varsEval, varsDist, varsLoad, varsRes>>

NextCollate == Fetch \/ Forward \/ Backward \/ NextStep


\* ------------------------------------------------------- the training loop
OutputDir == <<"r", "-", "1">>          \* args.output_dir of the training runs

BaseModel == <<"b">>                    \* a model name that is no path on disk

\* l.959-963: --sampling_type
SamplingTypes == {"uniform", "size", "dynamic"}

TrainArgs ==
    [gradient_accumulation_steps : 1..MaxAccum,
     max_steps                   : {-1} \cup 1..MaxMaxSteps,
     num_train_epochs            : 1..MaxEpochs,
     model_name_or_path          : {BaseModel},
     start_again                 : {FALSE},
     sampling_type               : SamplingTypes]

\* train l.348: a checkpoint path is given and start_again is not set
Resumed(a) == a.model_name_or_path # BaseModel /\ ~a.start_again

\* l.243, l.249, l.352, l.355: len(train_dataloader) // gradient_accumulation_steps
StepsPerEpoch(len, a) == len \div a.gradient_accumulation_steps

\* Mutant of ResumeState: the resumed run restarts at the epoch boundary
\* below the checkpoint.
ResumeStateEpochOnly(path, steps_per_epoch) ==
    LET g == ResumeStep(path)
    IN  [global_step |-> (g \div steps_per_epoch) * steps_per_epoch,
         epochs_trained |-> g \div steps_per_epoch,
         steps_trained_in_current_epoch |-> 0]

\* Mutant of ResumeState: the whole global_step is taken as the number of
\* batches to skip.
ResumeStateNoModulo(path, steps_per_epoch) ==
    LET g == ResumeStep(path)
    IN  [global_step |-> g,
         epochs_trained |-> g \div steps_per_epoch,
         steps_trained_in_current_epoch |-> g]

\* l.350-356
ResumeState(path, steps_per_epoch) ==
    LET g == ResumeStep(path)
    IN  [global_step |-> g,
         epochs_trained |-> g \div steps_per_epoch,
         steps_trained_in_current_epoch |-> g % steps_per_epoch]

\* l.344-346
FreshState ==
    [global_step |-> 0, epochs_trained |-> 0, steps_trained_in_current_epoch |-> 0]

\* Mutant of IsHalf: the midpoint is rounded up.
IsHalfRoundedUp(s, len) == s = (len + 1) \div 2

\* l.394, l.401: half_of_batch = len(in_epoch_iterator) // 2; step == half_of_batch
IsHalf(s, len) == s = len \div 2

\* Mutant of IsUpdateStep: the optimizer is stepped after every pass.
IsUpdateStepAlways(s, a) == TRUE

\* l.465
IsUpdateStep(s, a) == (s + 1) % a.gradient_accumulation_steps = 0

\* Mutant of NextGlobalStep: the increment is outside the `if` of l.465.
NextGlobalStepEveryPass(g, s, a) == g + 1

\* l.465, l.478
NextGlobalStep(g, s, a) == IF IsUpdateStep(s, a) THEN g + 1 ELSE g

\* l.480, l.499
MaxStepsReached(g, a) == a.max_steps > 0 /\ g > a.max_steps

\* save_model l.149-175: the directory is created when missing and its files
\* are (over)written.  info is what the files hold.
\* Mutant of SaveModel: the files go to output_dir itself, not to a
\* directory named by the step.
SaveModelUnnamed(disk, output_dir, g, info) ==
    [p \in (DOMAIN disk) \cup {output_dir} |-> IF p = output_dir THEN info ELSE disk[p]]

SaveModel(disk, output_dir, g, info) ==
    LET path == CheckpointDir(output_dir, g)
    IN  [p \in (DOMAIN disk) \cup {path} |-> IF p = path THEN info ELSE disk[p]]

\* What a checkpoint holds: the optimizer/scheduler progress (global_step),
\* and, as history, the place of the writing run in its data stream.
CheckpointInfo(kind) ==
    [global_step   |-> global_step,
     batches       |-> epoch * dataloader_len + step,
     kind          |-> kind,
     uninterrupted |-> ~Resumed(args)]

NoDisk == [p \in {} |-> 0]

\* A directory on disk that save_model did not write: it holds no
\* optimizer.pt and no scheduler.pt.
DirInfo == [global_step |-> 0, batches |-> 0, kind |-> "dir", uninterrupted |-> FALSE]

\* l.376-377: args.output_dir is created when it is missing
MakeOutputDir(disk) ==
    [p \in (DOMAIN disk) \cup {OutputDir} |->
        IF p \in DOMAIN disk THEN disk[p] ELSE DirInfo]

\* Mutant of ContinuesFromCheckpoint: start_again is not looked at.
ContinuesWheneverPathExists(a, disk) == a.model_name_or_path \in DOMAIN disk

\* l.348: os.path.exists(args.model_name_or_path) and not args.start_again
ContinuesFromCheckpoint(a, disk) ==
    a.model_name_or_path \in DOMAIN disk /\ ~a.start_again

\* l.286-292: optimizer.pt and scheduler.pt are files of the given path and
\* start_again is not set
LoadsOptimizerState(a, disk) ==
    /\ a.model_name_or_path \in DOMAIN disk
    /\ disk[a.model_name_or_path].kind # "dir"
    /\ ~a.start_again

\* Mutant of IsDynamic: every policy but the default one evaluates.
IsDynamicOrSize(a) == a.sampling_type # "uniform"

\* l.386
IsDynamic(a) == a.sampling_type = "dynamic"

IdleRun ==
    /\ train_pc = "idle"
    /\ epoch = 0
    /\ step = 0
    /\ global_step = 0
    /\ epochs_trained = 0
    /\ steps_trained_in_current_epoch = 0
    /\ start_step = 0
    /\ updates = 0
    /\ passlog = <<>>
    /\ savelog = <<>>
    /\ epochs_done = {}
    /\ optimizer_loaded = FALSE
    /\ in_epoch_iterator = "none"
    /\ evallog = <<>>

InitTrain ==
    /\ args \in TrainArgs
    /\ dataloader_len \in 1..MaxLen
    /\ checkpoints = NoDisk
    /\ runs = 0
    /\ IdleRun

\* the training variables of the specifications that do not train
NoTrain ==
    /\ args = [gradient_accumulation_steps |-> 1, max_steps |-> -1,
               num_train_epochs |-> 1, model_name_or_path |-> BaseModel,
               start_again |-> FALSE, sampling_type |-> "uniform"]
    /\ dataloader_len = 1
    /\ checkpoints = NoDisk
    /\ runs = 0
    /\ IdleRun

\* train() up to the epoch loop, l.239-251, l.285-300 and l.344-378.  A failed
\* run stands for ZeroDivisionError (l.243, l.351) or ValueError (l.350).
\* The path given is a model name, or any directory on disk.
TrainStart ==
    /\ train_pc = "idle"
    /\ runs < MaxRuns
    /\ \E path \in {BaseModel} \cup DOMAIN checkpoints, again \in BOOLEAN :
          LET a == [args EXCEPT !.model_name_or_path = path, !.start_again = again]
              spe == StepsPerEpoch(dataloader_len, a)
              resume == ContinuesFromCheckpoint(a, checkpoints)
              early == a.max_steps > 0 /\ spe = 0
              ok == /\ ~early
                    /\ ~(resume /\ ResumeStep(path) = ParseError)
                    /\ ~(resume /\ spe = 0)
              st == IF resume /\ ok THEN ResumeState(path, spe) ELSE FreshState
              g == IF ok \/ early \/ ResumeStep(path) = ParseError
                   THEN st.global_step
                   ELSE ResumeStep(path)
          IN  /\ args' = IF a.max_steps > 0 /\ spe > 0
                         THEN [a EXCEPT !.num_train_epochs = a.max_steps \div spe + 1]
                         ELSE a
              /\ train_pc' = IF ok THEN "epochs" ELSE "failed"
              /\ optimizer_loaded' = (~early /\ LoadsOptimizerState(a, checkpoints))
              /\ global_step' = g
              /\ epochs_trained' = st.epochs_trained
              /\ steps_trained_in_current_epoch' = st.steps_trained_in_current_epoch
              /\ epoch' = st.epochs_trained
              /\ start_step' = g
              /\ checkpoints' = IF ok THEN MakeOutputDir(checkpoints) ELSE checkpoints
    /\ runs' = runs + 1
    /\ UNCHANGED <<dataloader_len, step, updates, passlog, savelog, epochs_done,
                   in_epoch_iterator, evallog>>
    /\ UNCHANGED <<varsCollate, varsCkpt, varsMain, varsEval, varsDist, varsLoad, varsRes>>

\* l.379-394: the next epoch of range(epochs_trained, num_train_epochs), or
\* the end of the epoch loop.  The iterator over the dataloader is made, then
\* the dynamic policy evaluates and hands the result to the dataset; the
\* first batch is drawn by the first Step.
EpochBegin ==
    /\ train_pc = "epochs"
    /\ IF epoch < args.num_train_epochs
       THEN /\ train_pc' = "steps"
            /\ step' = 0
            /\ in_epoch_iterator' = "open"
            /\ evallog' = IF IsDynamic(args)
                          THEN Append(evallog, [epoch |-> epoch,
                                                passes |-> Len(passlog)])
                          ELSE evallog
       ELSE /\ train_pc' = "return"
            /\ UNCHANGED <<step, in_epoch_iterator, evallog>>
    /\ UNCHANGED <<args, dataloader_len, epoch, global_step, epochs_trained,
                   steps_trained_in_current_epoch, checkpoints, runs, start_step,
                   updates, passlog, savelog, epochs_done, optimizer_loaded>>
    /\ UNCHANGED <<varsCollate, varsCkpt, varsMain, varsEval, varsDist, varsLoad, varsRes>>

\* l.395-482: one iteration of the inner loop.  step counts the batches drawn
\* in this epoch, so the batch handled here has index step.
Step ==
    /\ train_pc = "steps"
    /\ IF steps_trained_in_current_epoch > 0
       THEN /\ steps_trained_in_current_epoch' = steps_trained_in_current_epoch - 1
            /\ train_pc' = IF step + 1 = dataloader_len THEN "epoch_end" ELSE "steps"
            /\ UNCHANGED <<global_step, checkpoints, updates, passlog, savelog>>
       ELSE LET g == NextGlobalStep(global_step, step, args)
            IN  /\ checkpoints' =
                      IF IsHalf(step, dataloader_len)
                      THEN SaveModel(checkpoints, OutputDir, global_step,
                                     CheckpointInfo("mid"))
                      ELSE checkpoints
                /\ savelog' =
                      IF IsHalf(step, dataloader_len)
                      THEN Append(savelog, [epoch |-> epoch, kind |-> "mid",
                                            global_step |-> global_step])
                      ELSE savelog
                /\ passlog' = Append(passlog, [epoch |-> epoch, step |-> step,
                                               update |-> IsUpdateStep(step, args)])
                /\ updates' = IF IsUpdateStep(step, args) THEN updates + 1 ELSE updates
                /\ global_step' = g
                /\ train_pc' = IF MaxStepsReached(g, args) \/ step + 1 = dataloader_len
                               THEN "epoch_end" ELSE "steps"
                /\ UNCHANGED steps_trained_in_current_epoch
    /\ step' = step + 1
    /\ in_epoch_iterator' = IF train_pc' = "epoch_end" THEN "closed" ELSE "open"
    /\ UNCHANGED <<args, dataloader_len, epoch, epochs_trained, runs, start_step,
                   epochs_done, optimizer_loaded, evallog>>
    /\ UNCHANGED <<varsCollate, varsCkpt, varsMain, varsEval, varsDist, varsLoad, varsRes>>

\* l.484-501: the end-of-epoch checkpoint, then the next epoch or the stop.
EpochEnd ==
    /\ train_pc = "epoch_end"
    /\ checkpoints' = SaveModel(checkpoints, OutputDir, global_step,
                                CheckpointInfo(IF MaxStepsReached(global_step, args)
                                               THEN "stop" ELSE "end"))
    /\ savelog' = Append(savelog, [epoch |-> epoch, kind |-> "end",
                                   global_step |-> global_step])
    /\ epochs_done' = epochs_done \cup {epoch}
    /\ IF MaxStepsReached(global_step, args)
       THEN train_pc' = "return" /\ UNCHANGED epoch
       ELSE train_pc' = "epochs" /\ epoch' = epoch + 1
    /\ UNCHANGED <<args, dataloader_len, step, global_step, epochs_trained,
                   steps_trained_in_current_epoch, runs, start_step, updates, passlog,
                   optimizer_loaded, in_epoch_iterator, evallog>>
    /\ UNCHANGED <<varsCollate, varsCkpt, varsMain, varsEval, varsDist, varsLoad, varsRes>>

\* l.503-506: return global_step, tr_loss / global_step
TrainReturn ==
    /\ train_pc = "return"
    /\ train_pc' = IF global_step = 0 THEN "failed" ELSE "done"
    /\ UNCHANGED <<args, dataloader_len, epoch, step, global_step, epochs_trained,
                   steps_trained_in_current_epoch, checkpoints, runs, start_step,
                   updates, passlog, savelog, epochs_done, optimizer_loaded,
                   in_epoch_iterator, evallog>>
    /\ UNCHANGED <<varsCollate, varsCkpt, varsMain, varsEval, varsDist, varsLoad, varsRes>>

\* The process ends (interrupted anywhere in train(), or after its return);
\* only the disk outlives it.
ProcessExit ==
    /\ train_pc # "idle"
    /\ runs < MaxRuns
    /\ train_pc' = "idle"
    /\ epoch' = 0
    /\ step' = 0
    /\ global_step' = 0
    /\ epochs_trained' = 0
    /\ steps_trained_in_current_epoch' = 0
    /\ start_step' = 0
    /\ updates' = 0
    /\ passlog' = <<>>
    /\ savelog' = <<>>
    /\ epochs_done' = {}
    /\ optimizer_loaded' = FALSE
    /\ in_epoch_iterator' = "none"
    /\ evallog' = <<>>
    /\ args' = [args EXCEPT !.model_name_or_path = BaseModel, !.start_again = FALSE]
    /\ UNCHANGED <<dataloader_len, checkpoints, runs>>
    /\ UNCHANGED <<varsCollate, varsCkpt, varsMain, varsEval, varsDist, varsLoad, varsRes>>

NextTrain == TrainStart \/ EpochBegin \/ Step \/ EpochEnd \/ TrainReturn \/ ProcessExit

\* ------------------------------------------------------------------ main()
\* python's `sub in s` on strings
Contains(s, sub) ==
    \E i \in 1..(Len(s) - Len(sub) + 1) : SubSeq(s, i, i + Len(sub) - 1) = sub

Dnc == <<"d", "n", "c">>

SizeExperiment ==
    <<"s", "i", "z", "e", "_", "e", "x", "p", "e", "r", "i", "m", "e", "n", "t">>

\* train l.218-237: which collate_fn the DataLoader gets
ChooseAssembler(a) ==
    IF Contains(a.output_dir, Dnc) \/ Contains(a.output_dir, SizeExperiment)
    THEN "dense"
    ELSE "split"

\* The task registry imported at l.86.
processors == {"mnli", "rte", "sts-b"}

\* Mutant of TasksFound: only the first name is looked up.
TasksFoundFirstOnly(task_names) == task_names[1] \in processors

\* l.1052-1054: no name raises "Task not found"
TasksFound(task_names) ==
    \A i \in 1..Len(task_names) : task_names[i] \in processors

\* l.968: the values the help text of --batch_type lists
RecognizedBatchTypes ==
    {"heterogeneous", "forced_heterogeneous", "homogeneous", "partition"}

\* MTLDataset(args, ...) at l.1128-1130 takes args, batch_type included.
BatchTypeAccepted(a) == a.batch_type \in RecognizedBatchTypes

\* l.984-989
OutputDirError(a, files) ==
    files # {} /\ a.do_train /\ ~a.overwrite_output_dir

\* l.996: the file whose presence ends the run at once
Marker == "results.csv"

AlreadyDone(files) == Marker \in files

\* Mutant of FilesWrittenBy: results.json is written as soon as training
\* saves, and again at the end.
FilesWrittenByEagerResults(stage) ==
    CASE stage = "train"   -> {"checkpoint", "results.json"}
      [] stage = "save"    -> {"pytorch_model.bin"}
      [] stage = "eval"    -> {"eval_results.txt"}
      [] stage = "results" -> {"results.json"}

\* What each stage of main() puts into args.output_dir: save_model (l.149-175),
\* save_pretrained (l.1144-1151), evaluate (l.626-637), the end of main
\* (l.1203-1204).
FilesWrittenBy(stage) ==
    CASE stage = "train"   -> {"checkpoint"}
      [] stage = "save"    -> {"pytorch_model.bin"}
      [] stage = "eval"    -> {"eval_results.txt"}
      [] stage = "results" -> {"results.json"}

MainOutputDirs == {<<"o", "u", "t">>, <<"r", "-", "d", "n", "c", "1">>}

TaskNameLists == {<<"rte">>, <<"rte", "nosuch">>}

BatchTypes == {"heterogeneous", "homogeneous", "nosuch"}

MainArgs ==
    [do_train             : BOOLEAN,
     do_eval              : BOOLEAN,
     overwrite_output_dir : BOOLEAN,
     output_dir           : MainOutputDirs,
     task_names           : TaskNameLists,
     batch_type           : BatchTypes]

\* The state of a process that has just parsed its arguments.
FreshProcess ==
    /\ main_pc = "start"
    /\ files_at_start = output_files
    /\ loaded = {}
    /\ trained = FALSE
    /\ evaluated = FALSE
    /\ written = {}
    /\ assembler = "none"

\* The first invocation finds the directory empty (or missing), or holding
\* the marker file, which no code of run_glue.py writes.
InitMain ==
    /\ main_args \in MainArgs
    /\ output_files \in {{}, {Marker}}
    /\ rerun = FALSE
    /\ FreshProcess

NoMain ==
    /\ main_pc = "off"
    /\ main_args = [do_train |-> FALSE, do_eval |-> FALSE,
                    overwrite_output_dir |-> FALSE, output_dir |-> <<"o", "u", "t">>,
                    task_names |-> <<"rte">>, batch_type |-> "heterogeneous"]
    /\ output_files = {}
    /\ files_at_start = {}
    /\ loaded = {}
    /\ trained = FALSE
    /\ evaluated = FALSE
    /\ written = {}
    /\ assembler = "none"
    /\ rerun = FALSE

\* l.984-994
MainCheckOutputDir ==
    /\ main_pc = "start"
    /\ main_pc' = IF OutputDirError(main_args, output_files)
                  THEN "exit_error" ELSE "guard"
    /\ UNCHANGED <<main_args, output_files, files_at_start, loaded, trained,
                   evaluated, written, assembler, rerun>>
    /\ UNCHANGED <<varsCollate, varsCkpt, varsTrain, varsEval, varsDist, varsLoad, varsRes>>

\* l.996-1001
MainAlreadyDone ==
    /\ main_pc = "guard"
    /\ main_pc' = IF AlreadyDone(output_files) THEN "exit_ok" ELSE "tasks"
    /\ UNCHANGED <<main_args, output_files, files_at_start, loaded, trained,
                   evaluated, written, assembler, rerun>>
    /\ UNCHANGED <<varsCollate, varsCkpt, varsTrain, varsEval, varsDist, varsLoad, varsRes>>

\* l.1047-1061
MainPrepareTasks ==
    /\ main_pc = "tasks"
    /\ main_pc' = IF TasksFound(main_args.task_names)
                  THEN "load_model" ELSE "exit_error"
    /\ UNCHANGED <<main_args, output_files, files_at_start, loaded, trained,
                   evaluated, written, assembler, rerun>>
    /\ UNCHANGED <<varsCollate, varsCkpt, varsTrain, varsEval, varsDist, varsLoad, varsRes>>

\* l.1084-1107: from_pretrained of config, tokenizer and model; any of them
\* may raise.
MainLoadModel ==
    /\ main_pc = "load_model"
    /\ \/ /\ loaded' = loaded \cup {"config", "tokenizer", "model"}
          /\ main_pc' = "datasets"
       \/ /\ main_pc' = "exit_error"
          /\ UNCHANGED loaded
    /\ UNCHANGED <<main_args, output_files, files_at_start, trained,
                   evaluated, written, assembler, rerun>>
    /\ UNCHANGED <<varsCollate, varsCkpt, varsTrain, varsEval, varsDist, varsLoad, varsRes>>

\* l.1110-1130: the training sets (feature generation may raise, l.707-709),
\* then the MTLDataset.
MainLoadDatasets ==
    /\ main_pc = "datasets"
    /\ IF ~main_args.do_train
       THEN main_pc' = "eval" /\ UNCHANGED loaded
       ELSE \/ /\ main_pc' = "exit_error"
               /\ UNCHANGED loaded
            \/ /\ loaded' = loaded \cup {"dataset"}
               /\ main_pc' = IF BatchTypeAccepted(main_args)
                             THEN "train" ELSE "exit_error"
    /\ UNCHANGED <<main_args, output_files, files_at_start, trained,
                   evaluated, written, assembler, rerun>>
    /\ UNCHANGED <<varsCollate, varsCkpt, varsTrain, varsEval, varsDist, varsLoad, varsRes>>

\* l.1131: train().  It may raise before the loop (l.350) or inside it
\* (l.199), after any number of steps and saves.
MainTrain ==
    /\ main_pc = "train"
    /\ assembler' = ChooseAssembler(main_args)
    /\ \/ /\ main_pc' = "save"
          /\ trained' = TRUE
          /\ written' = written \cup FilesWrittenBy("train")
          /\ output_files' = output_files \cup FilesWrittenBy("train")
       \/ /\ main_pc' = "exit_error"
          /\ \E stepped \in BOOLEAN, saved \in BOOLEAN :
                /\ trained' = stepped
                /\ written' = IF saved THEN written \cup FilesWrittenBy("train")
                              ELSE written
                /\ output_files' = IF saved
                                   THEN output_files \cup FilesWrittenBy("train")
                                   ELSE output_files
    /\ UNCHANGED <<main_args, files_at_start, loaded, evaluated, rerun>>
    /\ UNCHANGED <<varsCollate, varsCkpt, varsTrain, varsEval, varsDist, varsLoad, varsRes>>

\* l.1136-1160 (do_train holds here)
MainSave ==
    /\ main_pc = "save"
    /\ written' = written \cup FilesWrittenBy("save")
    /\ output_files' = output_files \cup FilesWrittenBy("save")
    /\ main_pc' = "eval"
    /\ UNCHANGED <<main_args, files_at_start, loaded, trained, evaluated,
                   assembler, rerun>>
    /\ UNCHANGED <<varsCollate, varsCkpt, varsTrain, varsEval, varsDist, varsLoad, varsRes>>

\* l.1162-1196: the tokenizer and the model come from args.output_dir, so
\* they must have been saved there; evaluate() may raise after it has
\* written reports.
MainEvaluate ==
    /\ main_pc = "eval"
    /\ IF ~main_args.do_eval
       THEN main_pc' = "results" /\ UNCHANGED <<evaluated, written, output_files>>
       ELSE IF FilesWrittenBy("save") \cap output_files = {}
       THEN main_pc' = "exit_error" /\ UNCHANGED <<evaluated, written, output_files>>
       ELSE \/ /\ main_pc' = "results"
               /\ evaluated' = TRUE
               /\ written' = written \cup FilesWrittenBy("eval")
               /\ output_files' = output_files \cup FilesWrittenBy("eval")
            \/ /\ main_pc' = "exit_error"
               /\ \E reported \in BOOLEAN :
                     /\ evaluated' = reported
                     /\ written' = IF reported
                                   THEN written \cup FilesWrittenBy("eval")
                                   ELSE written
                     /\ output_files' = IF reported
                                        THEN output_files \cup FilesWrittenBy("eval")
                                        ELSE output_files
    /\ UNCHANGED <<main_args, files_at_start, loaded, trained, assembler, rerun>>
    /\ UNCHANGED <<varsCollate, varsCkpt, varsTrain, varsEval, varsDist, varsLoad, varsRes>>

\* l.1198-1205
MainWriteResults ==
    /\ main_pc = "results"
    /\ written' = written \cup FilesWrittenBy("results")
    /\ output_files' = output_files \cup FilesWrittenBy("results")
    /\ main_pc' = "exit_ok"
    /\ UNCHANGED <<main_args, files_at_start, loaded, trained, evaluated,
                   assembler, rerun>>
    /\ UNCHANGED <<varsCollate, varsCkpt, varsTrain, varsEval, varsDist, varsLoad, varsRes>>

\* The script is started again on the same output_dir; only the disk is
\* left of the process before.
MainInvoke ==
    /\ main_pc \in {"exit_ok", "exit_error"}
    /\ \E a \in MainArgs :
          /\ a.output_dir = main_args.output_dir
          /\ main_args' = a
          /\ rerun' = /\ a = main_args
                      /\ main_pc = "exit_ok"
                      /\ "results.json" \in written
    /\ main_pc' = "start"
    /\ files_at_start' = output_files
    /\ loaded' = {}
    /\ trained' = FALSE
    /\ evaluated' = FALSE
    /\ written' = {}
    /\ assembler' = "none"
    /\ UNCHANGED output_files
    /\ UNCHANGED <<varsCollate, varsCkpt, varsTrain, varsEval, varsDist, varsLoad, varsRes>>

NextMain ==
    \/ MainCheckOutputDir
    \/ MainAlreadyDone
    \/ MainPrepareTasks
    \/ MainLoadModel
    \/ MainLoadDatasets
    \/ MainTrain
    \/ MainSave
    \/ MainEvaluate
    \/ MainWriteResults
    \/ MainInvoke

\* -------------------------------------------------------------- evaluate()
EvalTasks == {"mnli", "rte", "sts-b"}

IMin(a, b) == IF a < b THEN a ELSE b

\* python's zip of two tuples: as long as the shorter one
Zip(a, b) == [k \in 1..IMin(Len(a), Len(b)) |-> <<a[k], b[k]>>]

\* l.524
EvalTaskNames(task_name) ==
    IF task_name = "mnli" THEN <<"mnli">> ELSE <<task_name>>

\* l.525-529, as the suffix put after args.output_dir
EvalOutputsDirs(task_name) ==
    IF task_name = "mnli" THEN <<"", "-MM">> ELSE <<"">>

\* l.581: eval_task.replace("-mm", "")
StripMM(t) == IF t = "mnli-mm" THEN "mnli" ELSE t

\* list.index(x): the first position of x
Index(s, x) == CHOOSE i \in 1..Len(s) : s[i] = x /\ \A j \in 1..(i - 1) : s[j] # x

\* l.580-582
ModelNumLabels(a, t) == a.num_label_list[Index(a.task_names, StripMM(t))]

\* main l.1051-1061: num_label_list[i] is the number of labels of the
\* processor of task_names[i]
EvalArgs ==
    UNION {{[task_names |-> names, num_label_list |-> [i \in 1..n |-> labels[names[i]]]] :
                names \in [1..n -> EvalTasks], labels \in [EvalTasks -> 1..MaxLabels]} :
           n \in 1..MaxTasks}

NoResults == [k \in {} |-> <<>>]

InitEval ==
    /\ eval_pc = "outer"
    /\ eval_args \in EvalArgs
    /\ eval_task_index = 1
    /\ pairs = <<>>
    /\ index = 1
    /\ eval_task = ""
    /\ eval_output_dir = ""
    /\ n_batches = 1
    /\ nb_eval_steps = 0
    /\ num_labels = eval_args.num_label_list[1]
    /\ results = <<>>
    /\ full_results = NoResults
    /\ inferences = <<>>

NoEval ==
    /\ eval_pc = "off"
    /\ eval_args = [task_names |-> <<"rte">>, num_label_list |-> <<1>>]
    /\ eval_task_index = 1
    /\ pairs = <<>>
    /\ index = 1
    /\ eval_task = ""
    /\ eval_output_dir = ""
    /\ n_batches = 1
    /\ nb_eval_steps = 0
    /\ num_labels = 1
    /\ results = <<>>
    /\ full_results = NoResults
    /\ inferences = <<>>

\* l.534-537: the next task, or the return at l.639
EvalNextTask ==
    /\ eval_pc = "outer"
    /\ IF eval_task_index > Len(eval_args.task_names)
       THEN /\ eval_pc' = "done"
            /\ UNCHANGED <<pairs, index, results>>
       ELSE /\ pairs' = Zip(EvalTaskNames(eval_args.task_names[eval_task_index]),
                            EvalOutputsDirs(eval_args.task_names[eval_task_index]))
            /\ index' = 1
            /\ results' = <<>>
            /\ eval_pc' = "inner"
    /\ UNCHANGED <<eval_args, eval_task_index, eval_task, eval_output_dir, n_batches,
                   nb_eval_steps, num_labels, full_results, inferences>>
    /\ UNCHANGED <<varsCollate, varsCkpt, varsTrain, varsMain, varsDist, varsLoad, varsRes>>

\* l.538-578: the next (eval_task, eval_output_dir) and its dataloader, or
\* l.638 when the pairs are used up
EvalNextVariant ==
    /\ eval_pc = "inner"
    /\ IF index > Len(pairs)
       THEN /\ full_results' =
                  [k \in (DOMAIN full_results) \cup {eval_task} |->
                      IF k = eval_task THEN results ELSE full_results[k]]
            /\ eval_task_index' = eval_task_index + 1
            /\ eval_pc' = "outer"
            /\ UNCHANGED <<eval_task, eval_output_dir, n_batches, nb_eval_steps>>
       ELSE /\ eval_task' = pairs[index][1]
            /\ eval_output_dir' = pairs[index][2]
            /\ n_batches' \in 1..MaxEvalBatches
            /\ nb_eval_steps' = 0
            /\ eval_pc' = "batches"
            /\ UNCHANGED <<full_results, eval_task_index>>
    /\ UNCHANGED <<eval_args, pairs, index, num_labels, results, inferences>>
    /\ UNCHANGED <<varsCollate, varsCkpt, varsTrain, varsMain, varsDist, varsLoad, varsRes>>

\* l.578-617: one batch of the evaluation set
EvalBatch ==
    /\ eval_pc = "batches"
    /\ nb_eval_steps < n_batches
    /\ num_labels' = ModelNumLabels(eval_args, eval_task)
    /\ inferences' = Append(inferences,
                            [task_index |-> eval_task_index,
                             eval_task  |-> eval_task,
                             dir        |-> eval_output_dir,
                             num_labels |-> num_labels'])
    /\ nb_eval_steps' = nb_eval_steps + 1
    /\ UNCHANGED <<eval_pc, eval_args, eval_task_index, pairs, index, eval_task,
                   eval_output_dir, n_batches, results, full_results>>
    /\ UNCHANGED <<varsCollate, varsCkpt, varsTrain, varsMain, varsDist, varsLoad, varsRes>>

\* l.618-636: the metrics of this variant are merged into results
EvalVariantEnd ==
    /\ eval_pc = "batches"
    /\ nb_eval_steps = n_batches
    /\ results' = Append(results, eval_task)
    /\ index' = index + 1
    /\ eval_pc' = "inner"
    /\ UNCHANGED <<eval_args, eval_task_index, pairs, eval_task, eval_output_dir,
                   n_batches, nb_eval_steps, num_labels, full_results, inferences>>
    /\ UNCHANGED <<varsCollate, varsCkpt, varsTrain, varsMain, varsDist, varsLoad, varsRes>>

NextEval == EvalNextTask \/ EvalNextVariant \/ EvalBatch \/ EvalVariantEnd

\* ---------------------------------------------------- distributed loading
\* args.local_rank of the processes of one distributed run
Ranks == 0..(NumProcs - 1)

\* Mutant of WaitsBeforeLoad: no rank waits at the head of the function.
WaitsBeforeLoadNever(rank) == FALSE

\* l.645-646 with evaluate = False
WaitsBeforeLoad(rank) == rank # 0

\* l.711
WritesCache(rank) == rank = 0

\* Mutant of SignalsAfterLoad: rank 0 makes no call after its load.
SignalsAfterLoadNever(rank) == FALSE

\* l.717-718 with evaluate = False
SignalsAfterLoad(rank) == rank = 0

\* l.672: os.path.exists(cached_features_file) and not args.overwrite_cache
CacheHit(c, ow) == c # "absent" /\ ~ow

\* torch.distributed.barrier() returns once every rank has made the call as
\* many times as the caller.
Released(p) == \A q \in Ranks : barriers[q] >= barriers[p]

Arrive(p) == barriers' = [barriers EXCEPT ![p] = @ + 1]

Goto(p, pc) == dist_pc' = [dist_pc EXCEPT ![p] = pc]

InitDist ==
    /\ dist_pc = [p \in Ranks |-> "start"]
    /\ barriers = [p \in Ranks |-> 0]
    /\ task_i = [p \in Ranks |-> 1]
    /\ n_tasks \in 1..MaxTrainTasks
    /\ overwrite_cache \in BOOLEAN
    /\ cache \in [1..MaxTrainTasks -> {"absent", "complete"}]
    /\ cache_at_start = cache
    /\ cache_writes = <<>>
    /\ cache_reads = {}
    /\ finished0 = {}

NoDist ==
    /\ dist_pc = [p \in Ranks |-> "off"]
    /\ barriers = [p \in Ranks |-> 0]
    /\ task_i = [p \in Ranks |-> 1]
    /\ n_tasks = 1
    /\ overwrite_cache = FALSE
    /\ cache = [t \in 1..MaxTrainTasks |-> "absent"]
    /\ cache_at_start = cache
    /\ cache_writes = <<>>
    /\ cache_reads = {}
    /\ finished0 = {}

\* main l.1080-1082
DistMainEnter ==
    /\ \E p \in Ranks :
          /\ dist_pc[p] = "start"
          /\ IF p # 0
             THEN Arrive(p) /\ Goto(p, "wait_main")
             ELSE Goto(p, "load_model") /\ UNCHANGED barriers
    /\ UNCHANGED <<task_i, n_tasks, overwrite_cache, cache, cache_at_start,
                   cache_writes, cache_reads, finished0>>
    /\ UNCHANGED <<varsCollate, varsCkpt, varsTrain, varsMain, varsEval, varsLoad, varsRes>>

\* main l.1084-1105
DistLoadModel ==
    /\ \E p \in Ranks :
          /\ dist_pc[p] = "load_model"
          /\ IF p = 0
             THEN Arrive(p) /\ Goto(p, "wait_model")
             ELSE Goto(p, "task") /\ UNCHANGED barriers
    /\ UNCHANGED <<task_i, n_tasks, overwrite_cache, cache, cache_at_start,
                   cache_writes, cache_reads, finished0>>
    /\ UNCHANGED <<varsCollate, varsCkpt, varsTrain, varsMain, varsEval, varsLoad, varsRes>>

\* A barrier call returns.
DistPass ==
    /\ \E p \in Ranks :
          /\ dist_pc[p] \in {"wait_main", "wait_model", "wait_task", "wait_after"}
          /\ Released(p)
          /\ Goto(p, CASE dist_pc[p] = "wait_main"  -> "load_model"
                       [] dist_pc[p] = "wait_model" -> "task"
                       [] dist_pc[p] = "wait_task"  -> "check"
                       [] dist_pc[p] = "wait_after" -> "task")
          /\ task_i' = IF dist_pc[p] = "wait_after"
                       THEN [task_i EXCEPT ![p] = @ + 1]
                       ELSE task_i
    /\ UNCHANGED <<barriers, n_tasks, overwrite_cache, cache, cache_at_start,
                   cache_writes, cache_reads, finished0>>
    /\ UNCHANGED <<varsCollate, varsCkpt, varsTrain, varsMain, varsEval, varsLoad, varsRes>>

\* main l.1112-1122 and load_and_cache_examples l.644-647: the next call of
\* load_and_cache_examples, or the end of the loop over the tasks
DistLoadTask ==
    /\ \E p \in Ranks :
          /\ dist_pc[p] = "task"
          /\ IF task_i[p] > n_tasks
             THEN Goto(p, "done") /\ UNCHANGED barriers
             ELSE IF WaitsBeforeLoad(p)
             THEN Arrive(p) /\ Goto(p, "wait_task")
             ELSE Goto(p, "check") /\ UNCHANGED barriers
    /\ UNCHANGED <<task_i, n_tasks, overwrite_cache, cache, cache_at_start,
                   cache_writes, cache_reads, finished0>>
    /\ UNCHANGED <<varsCollate, varsCkpt, varsTrain, varsMain, varsEval, varsLoad, varsRes>>

\* l.672-677: the cache file is loaded if it is there
DistCheckCache ==
    /\ \E p \in Ranks :
          /\ dist_pc[p] = "check"
          /\ IF CacheHit(cache[task_i[p]], overwrite_cache)
             THEN /\ cache_reads' = cache_reads \cup
                        {[rank     |-> p,
                          task     |-> task_i[p],
                          state    |-> cache[task_i[p]],
                          finished |-> task_i[p] \in finished0]}
                  /\ Goto(p, "after")
             ELSE /\ Goto(p, "convert")
                  /\ UNCHANGED cache_reads
    /\ UNCHANGED <<barriers, task_i, n_tasks, overwrite_cache, cache, cache_at_start,
                   cache_writes, finished0>>
    /\ UNCHANGED <<varsCollate, varsCkpt, varsTrain, varsMain, varsEval, varsLoad, varsRes>>

\* l.678-715: the features are made from the examples; torch.save starts
DistConvert ==
    /\ \E p \in Ranks :
          /\ dist_pc[p] = "convert"
          /\ IF WritesCache(p)
             THEN /\ cache' = [cache EXCEPT ![task_i[p]] = "partial"]
                  /\ cache_writes' = Append(cache_writes, <<p, task_i[p]>>)
                  /\ Goto(p, "saving")
             ELSE /\ Goto(p, "after")
                  /\ UNCHANGED <<cache, cache_writes>>
    /\ UNCHANGED <<barriers, task_i, n_tasks, overwrite_cache, cache_at_start,
                   cache_reads, finished0>>
    /\ UNCHANGED <<varsCollate, varsCkpt, varsTrain, varsMain, varsEval, varsLoad, varsRes>>

\* l.715: torch.save returns
DistSaveEnd ==
    /\ \E p \in Ranks :
          /\ dist_pc[p] = "saving"
          /\ cache' = [cache EXCEPT ![task_i[p]] = "complete"]
          /\ Goto(p, "after")
    /\ UNCHANGED <<barriers, task_i, n_tasks, overwrite_cache, cache_at_start,
                   cache_writes, cache_reads, finished0>>
    /\ UNCHANGED <<varsCollate, varsCkpt, varsTrain, varsMain, varsEval, varsLoad, varsRes>>

\* l.717-718, and the return of load_and_cache_examples
DistAfter ==
    /\ \E p \in Ranks :
          /\ dist_pc[p] = "after"
          /\ finished0' = IF p = 0 THEN finished0 \cup {task_i[p]} ELSE finished0
          /\ IF SignalsAfterLoad(p)
             THEN Arrive(p) /\ Goto(p, "wait_after") /\ UNCHANGED task_i
             ELSE /\ Goto(p, "task")
                  /\ task_i' = [task_i EXCEPT ![p] = @ + 1]
                  /\ UNCHANGED barriers
    /\ UNCHANGED <<n_tasks, overwrite_cache, cache, cache_at_start,
                   cache_writes, cache_reads>>
    /\ UNCHANGED <<varsCollate, varsCkpt, varsTrain, varsMain, varsEval, varsLoad, varsRes>>

NextDist ==
    \/ DistMainEnter
    \/ DistLoadModel
    \/ DistPass
    \/ DistLoadTask
    \/ DistCheckCache
    \/ DistConvert
    \/ DistSaveEnd
    \/ DistAfter

\* ------------------------------------------- loading the features of a task
\* l.664: the cache file of the dev set or of the train set
Splits == {"train", "dev"}

SplitOf(evaluate) == IF evaluate THEN "dev" ELSE "train"

\* l.686-690: the examples of a file, told apart by their position
Examples(n) == [i \in 1..n |-> i]

\* l.694: examples[:2] if shorten else examples
Shorten(examples, shorten) ==
    IF shorten THEN SubSeq(examples, 1, IMin(2, Len(examples))) ELSE examples

\* l.1003-1004: if args.short: args.per_gpu_train_batch_size = 2
ShortBatchSize(a) ==
    IF a.short THEN [a EXCEPT !.per_gpu_train_batch_size = 2] ELSE a

LoadArgs ==
    [short                    : BOOLEAN,
     overwrite_cache          : BOOLEAN,
     evaluate                 : BOOLEAN,
     per_gpu_train_batch_size : 1..MaxBatch]

NoFile == [state |-> "absent", features |-> <<>>]

InitLoad ==
    /\ load_pc = "main"
    /\ load_args \in LoadArgs
    /\ n_examples \in 1..MaxExamples
    /\ cache_file = [s \in Splits |-> NoFile]
    /\ features = <<>>
    /\ load_source = "none"
    /\ load_runs = 1

NoLoad ==
    /\ load_pc = "off"
    /\ load_args = [short |-> FALSE, overwrite_cache |-> FALSE, evaluate |-> FALSE,
                    per_gpu_train_batch_size |-> 1]
    /\ n_examples = 1
    /\ cache_file = [s \in Splits |-> NoFile]
    /\ features = <<>>
    /\ load_source = "none"
    /\ load_runs = 0

\* main l.1003-1004, up to the call of load_and_cache_examples (l.1116 for
\* the train set, l.542 from evaluate() for the dev set)
LoadMain ==
    /\ load_pc = "main"
    /\ load_args' = ShortBatchSize(load_args)
    /\ load_pc' = "check"
    /\ UNCHANGED <<n_examples, cache_file, features, load_source, load_runs>>
    /\ UNCHANGED <<varsCollate, varsCkpt, varsTrain, varsMain, varsEval, varsDist, varsRes>>

\* l.672-677: torch.load(cached_features_file) on a hit; it is in no try
\* block, so a file that cannot be unpickled ends the call with its exception
LoadCheck ==
    /\ load_pc = "check"
    /\ LET file == cache_file[SplitOf(load_args.evaluate)]
       IN  IF CacheHit(file.state, load_args.overwrite_cache)
           THEN IF file.state = "complete"
                THEN /\ features' = file.features
                     /\ load_source' = "cache"
                     /\ load_pc' = "done"
                ELSE /\ load_pc' = "failed"
                     /\ UNCHANGED <<features, load_source>>
           ELSE /\ load_pc' = "convert"
                /\ UNCHANGED <<features, load_source>>
    /\ UNCHANGED <<load_args, n_examples, cache_file, load_runs>>
    /\ UNCHANGED <<varsCollate, varsCkpt, varsTrain, varsMain, varsEval, varsDist, varsRes>>

\* l.678-715: the features are made from the examples (an exception of
\* convert_examples_to_features is printed and raised again, l.706-708), and
\* torch.save starts to write them
LoadConvert ==
    /\ load_pc = "convert"
    /\ \E raises \in BOOLEAN :
          IF raises
          THEN /\ load_pc' = "failed"
               /\ UNCHANGED <<features, load_source, cache_file>>
          ELSE /\ features' = Shorten(Examples(n_examples), load_args.short)
               /\ load_source' = "examples"
               /\ cache_file' = [cache_file EXCEPT ![SplitOf(load_args.evaluate)] =
                                    [state |-> "partial", features |-> <<>>]]
               /\ load_pc' = "saving"
    /\ UNCHANGED <<load_args, n_examples, load_runs>>
    /\ UNCHANGED <<varsCollate, varsCkpt, varsTrain, varsMain, varsEval, varsDist, varsRes>>

\* l.715: torch.save returns
LoadSaveEnd ==
    /\ load_pc = "saving"
    /\ cache_file' = [cache_file EXCEPT ![SplitOf(load_args.evaluate)] =
                         [state |-> "complete", features |-> features]]
    /\ load_pc' = "done"
    /\ UNCHANGED <<load_args, n_examples, features, load_source, load_runs>>
    /\ UNCHANGED <<varsCollate, varsCkpt, varsTrain, varsMain, varsEval, varsDist, varsRes>>

\* The process ends (through, failed, or killed anywhere) and the program is
\* started again over the same data directory, with any arguments.
LoadAgain ==
    /\ load_pc # "off"
    /\ load_runs < MaxLoadRuns
    /\ load_runs' = load_runs + 1
    /\ load_pc' = "main"
    /\ load_args' \in LoadArgs
    /\ features' = <<>>
    /\ load_source' = "none"
    /\ UNCHANGED <<n_examples, cache_file>>
    /\ UNCHANGED <<varsCollate, varsCkpt, varsTrain, varsMain, varsEval, varsDist, varsRes>>

NextLoad == LoadMain \/ LoadCheck \/ LoadConvert \/ LoadSaveEnd \/ LoadAgain

\* ------------------------------------------------ results.json, written by main()
\* l.1163: if args.do_eval and args.local_rank in [-1, 0]
EvaluatesHere(a, rank) == a.do_eval /\ rank = 0

\* What evaluate() may return for a checkpoint.
MetricValues == {"low", "high"}

\* l.1203-1204: the bytes written from position 0 lie over what the file has;
\* what is behind them stays.  A dictionary is written as its items in order.
Overlay(old, new) == new \o SubSeq(old, Len(new) + 1, Len(old))

ResArgs == [do_eval : BOOLEAN, n_checkpoints : 1..MaxCheckpoints]

NoResultsFile == [exists |-> FALSE, content |-> <<>>]

InitRes ==
    /\ res_pc = [p \in Ranks |-> "eval"]
    /\ res_args \in ResArgs
    /\ res_results = [p \in Ranks |-> <<>>]
    /\ results_json = NoResultsFile
    /\ results_writes = <<>>

NoRes ==
    /\ res_pc = [p \in Ranks |-> "off"]
    /\ res_args = [do_eval |-> FALSE, n_checkpoints |-> 1]
    /\ res_results = [p \in Ranks |-> <<>>]
    /\ results_json = NoResultsFile
    /\ results_writes = <<>>

\* l.1162-1196: results = {}; where the test of l.1163 holds, one checkpoint
\* more is evaluated and its result is merged into results under the key of
\* the checkpoint; otherwise, and after the last checkpoint, on to l.1198
ResEvaluate ==
    /\ \E p \in Ranks :
          /\ res_pc[p] = "eval"
          /\ IF EvaluatesHere(res_args, p) /\ Len(res_results[p]) < res_args.n_checkpoints
             THEN /\ \E v \in MetricValues :
                        res_results' = [res_results EXCEPT ![p] =
                            Append(@, [key |-> Len(@) + 1, value |-> v])]
                  /\ UNCHANGED res_pc
             ELSE /\ res_pc' = [res_pc EXCEPT ![p] = "open"]
                  /\ UNCHANGED res_results
    /\ UNCHANGED <<res_args, results_json, results_writes>>
    /\ UNCHANGED <<varsCollate, varsCkpt, varsTrain, varsMain, varsEval, varsDist,
                   varsLoad>>

\* l.1203: open(results.json, "w") makes the file, or empties it; the
\* statement is under no test of the rank
ResOpen ==
    /\ \E p \in Ranks :
          /\ res_pc[p] = "open"
          /\ results_json' = [exists |-> TRUE, content |-> <<>>]
          /\ res_pc' = [res_pc EXCEPT ![p] = "write"]
    /\ UNCHANGED <<res_args, res_results, results_writes>>
    /\ UNCHANGED <<varsCollate, varsCkpt, varsTrain, varsMain, varsEval, varsDist,
                   varsLoad>>

\* l.1204-1205: fout.write(json.dumps(results)), the file is closed, return
ResWrite ==
    /\ \E p \in Ranks :
          /\ res_pc[p] = "write"
          /\ results_json' = [exists |-> TRUE,
                              content |-> Overlay(results_json.content, res_results[p])]
          /\ results_writes' = Append(results_writes, p)
          /\ res_pc' = [res_pc EXCEPT ![p] = "done"]
    /\ UNCHANGED <<res_args, res_results>>
    /\ UNCHANGED <<varsCollate, varsCkpt, varsTrain, varsMain, varsEval, varsDist,
                   varsLoad>>

NextRes == ResEvaluate \/ ResOpen \/ ResWrite

\* ------------------------------------- evaluate() called from train()
\* The names of the NumTasks training tasks.
TaskNamePool == <<"mnli", "rte", "sts-b", "cola", "qqp", "wnli">>

TrainTaskNames == SubSeq(TaskNamePool, 1, NumTasks)

\* train l.386-390: evaluate(args, model, tokenizer) before the first batch
\* of an epoch is drawn, with the args of the training run
EvalEnter ==
    /\ step_pc = "fetch"
    /\ raw_batch = <<>>
    /\ eval_pc = "off"
    /\ eval_pc' = "outer"
    /\ eval_args' = [task_names |-> TrainTaskNames,
                     num_label_list |-> step_args.num_label_list]
    /\ UNCHANGED <<eval_task_index, pairs, index, eval_task, eval_output_dir,
                   n_batches, nb_eval_steps, num_labels, results, full_results,
                   inferences>>
    /\ UNCHANGED <<varsCollate, varsCkpt, varsTrain, varsMain, varsDist, varsLoad, varsRes>>

\* l.639: evaluate() returns to train(); its locals are gone
EvalLeave ==
    /\ eval_pc = "done"
    /\ step_pc = "fetch"
    /\ eval_pc' = "off"
    /\ eval_args' = [task_names |-> <<"rte">>, num_label_list |-> <<1>>]
    /\ eval_task_index' = 1
    /\ pairs' = <<>>
    /\ index' = 1
    /\ eval_task' = ""
    /\ eval_output_dir' = ""
    /\ n_batches' = 1
    /\ nb_eval_steps' = 0
    /\ num_labels' = 1
    /\ results' = <<>>
    /\ full_results' = NoResults
    /\ inferences' = <<>>
    /\ UNCHANGED <<varsCollate, varsCkpt, varsTrain, varsMain, varsDist, varsLoad, varsRes>>

NextDispatch ==
    \/ Fetch
    \/ Forward
    \/ Backward
    \/ NextStep
    \/ EvalEnter
    \/ EvalNextTask
    \/ EvalNextVariant
    \/ EvalBatch
    \/ EvalVariantEnd
    \/ EvalLeave

\* ---------------------------------------------------------- specifications
NoOthers == NoMain /\ NoEval /\ NoDist /\ NoLoad /\ NoRes

InitOfCollate == InitCollate /\ InitCkpt /\ NoTrain /\ NoOthers

InitOfCkpt == InitCollate /\ InitCkpt /\ NoTrain /\ NoOthers

InitOfTrain == InitCollate /\ InitCkpt /\ InitTrain /\ NoOthers

InitOfMain == InitCollate /\ InitCkpt /\ NoTrain /\ InitMain /\ NoEval /\ NoDist /\ NoLoad /\ NoRes

InitOfEval == InitCollate /\ InitCkpt /\ NoTrain /\ NoMain /\ InitEval /\ NoDist /\ NoLoad /\ NoRes

InitOfDispatch == InitStep /\ InitCkpt /\ NoTrain /\ NoOthers

InitOfLoad == InitCollate /\ InitCkpt /\ NoTrain /\ NoMain /\ NoEval /\ NoDist /\ InitLoad /\ NoRes

InitOfRes == InitCollate /\ InitCkpt /\ NoTrain /\ NoMain /\ NoEval /\ NoDist /\ NoLoad /\ InitRes

InitOfDist == InitCollate /\ InitCkpt /\ NoTrain /\ NoMain /\ NoEval /\ InitDist /\ NoLoad /\ NoRes

SpecCollate == InitOfCollate /\ [][NextCollate]_vars

SpecCkpt == InitOfCkpt /\ [][NextCkpt]_vars

SpecTrain == InitOfTrain /\ [][NextTrain]_vars

SpecMain == InitOfMain /\ [][NextMain]_vars

SpecEval == InitOfEval /\ [][NextEval]_vars

SpecDist == InitOfDist /\ [][NextDist]_vars

SpecDispatch == InitOfDispatch /\ [][NextDispatch]_vars

SpecLoad == InitOfLoad /\ [][NextLoad]_vars

SpecRes == InitOfRes /\ [][NextRes]_vars

\* Every process of the run is scheduled as long as it can take a step.
SpecDistLive == InitOfDist /\ [][NextDist]_vars /\ WF_vars(NextDist)

\* ------------------------------------------------------------------ claims
TasksOf(sub_batch) == {Last(sub_batch)[i] : i \in 1..Len(Last(sub_batch))}

\* C1: every sub-batch returned by the split-mode assembler holds instances
\* of exactly one task.
C1_Homogeneity ==
    \A k \in 1..Len(batch_all) : Cardinality(TasksOf(batch_all[k])) = 1

C1_Witness ==
    /\ step_pc = "forward"
    /\ Len(batch_all) = 2
    /\ \E k \in 1..2 : Len(Last(batch_all[k])) = 2

\* C2: a raw batch whose per-task groups are all empty raises; nothing is
\* returned and no forward pass of the step happens.
C2_EmptyRaises ==
    (step_pc # "fetch" /\ raw_batch = <<>>) =>
        /\ step_pc = "raised"
        /\ batch_all = <<>>
        /\ dispatched = <<>>

C2_Witness == step_pc = "raised" /\ raw_batch = <<>>

\* First position of task t in the raw batch (0 when absent).
FirstPos(batch, t) ==
    IF \E i \in 1..Len(batch) : Last(batch[i]) = t
    THEN CHOOSE i \in 1..Len(batch) :
            /\ Last(batch[i]) = t
            /\ \A j \in 1..(i - 1) : Last(batch[j]) # t
    ELSE 0

\* Position of task t's sub-batch in the result (0 when absent).
SubPos(t) ==
    IF \E k \in 1..Len(batch_all) : t \in TasksOf(batch_all[k])
    THEN CHOOSE k \in 1..Len(batch_all) : t \in TasksOf(batch_all[k])
    ELSE 0

\* C3 as claimed: sub-batches come in the order in which their tasks first
\* appear in the raw batch.
C3_FirstAppearanceOrder ==
    step_pc = "forward" =>
        \A a, b \in 0..(NumTasks - 1) :
            (FirstPos(raw_batch, a) > 0 /\ FirstPos(raw_batch, b) > 0
             /\ FirstPos(raw_batch, a) < FirstPos(raw_batch, b))
                => SubPos(a) < SubPos(b)

\* C3 amended: sub-batches come in ascending order of task index (the order
\* of the configured task list), whatever the order of the raw batch.
C3_TaskIndexOrder ==
    step_pc = "forward" =>
        \A a, b \in 0..(NumTasks - 1) :
            (FirstPos(raw_batch, a) > 0 /\ FirstPos(raw_batch, b) > 0 /\ a < b)
                => (SubPos(a) > 0 /\ SubPos(a) < SubPos(b))

C3_Witness ==
    /\ step_pc = "forward"
    /\ Len(raw_batch) >= 2
    /\ Last(raw_batch[1]) > Last(raw_batch[2])
    /\ Len(batch_all) >= 2

\* C8: the step parsed from the directory save_model creates for g is g, for
\* every output directory.
C8_NameRoundTrip == ck_pc = "parsed" => ck_parsed = ck_step

C8_Witness ==
    /\ ck_pc = "parsed"
    /\ ck_step >= 10
    /\ \E i \in 1..Len(ck_dir) : ck_dir[i] = "-"
    /\ \E i \in 1..Len(ck_dir) : ck_dir[i] = "7"
    /\ ck_parsed = ck_step

\* The updates among passes i..j of this run's pass log.
UpdatesIn(i, j) == Cardinality({k \in i..j : passlog[k].update})

\* C4 as claimed: over the whole sequence of processed steps of a run, epoch
\* boundaries and resume included, every N consecutive passes hold exactly
\* one optimizer update.  (Stated for loaders of at least N batches, so that
\* its failure does not rest on an epoch shorter than one window.)
C4_OncePerWindowWholeRun ==
    LET n == args.gradient_accumulation_steps
    IN  dataloader_len >= n =>
            \A i \in 1..(Len(passlog) - n + 1) : UpdatesIn(i, i + n - 1) = 1

\* C4 amended: every N consecutive passes that belong to one epoch hold
\* exactly one optimizer update (the window does not carry over an epoch end).
C4_OncePerWindowInEpoch ==
    LET n == args.gradient_accumulation_steps
    IN  \A i \in 1..(Len(passlog) - n + 1) :
            passlog[i].epoch = passlog[i + n - 1].epoch
                => UpdatesIn(i, i + n - 1) = 1

C4_Witness ==
    /\ args.gradient_accumulation_steps = 2
    /\ Resumed(args)
    /\ steps_trained_in_current_epoch = 0
    /\ start_step > 0
    /\ \E i \in 1..(Len(passlog) - 1) :
          /\ passlog[i].epoch = passlog[i + 1].epoch
          /\ passlog[i].update
    /\ \E i \in 1..(Len(passlog) - 1) : passlog[i].epoch # passlog[i + 1].epoch

\* C5: global_step is its starting value plus the number of optimizer
\* updates applied so far; nothing else moves it.
C5_GlobalStepCountsUpdates ==
    train_pc # "idle" => global_step = start_step + updates

C5_Witness ==
    /\ Resumed(args)
    /\ start_step > 0
    /\ updates >= 2
    /\ \E i \in 1..Len(passlog) : ~passlog[i].update

\* C6: a run resumed from a checkpoint that an uninterrupted run wrote at an
\* epoch midpoint or epoch end starts at the place in the data stream at which
\* that run was when it wrote it.
C6_ResumeSamePosition ==
    (/\ train_pc = "epochs"
     /\ epoch = epochs_trained
     /\ passlog = <<>>
     /\ Resumed(args)
     /\ checkpoints[args.model_name_or_path].uninterrupted
     /\ checkpoints[args.model_name_or_path].kind \in {"mid", "end"})
        => epochs_trained * dataloader_len + steps_trained_in_current_epoch
               = checkpoints[args.model_name_or_path].batches

\* C7: global_step never goes down within a run, and a resumed run starts
\* at no less than the global_step its checkpoint was saved at.
C7_StepNeverDecreases ==
    [][/\ (train_pc # "idle" /\ train_pc' # "idle") => global_step' >= global_step
       /\ (/\ train_pc = "idle"
           /\ train_pc' = "epochs"
           /\ Resumed(args')
           /\ checkpoints[args'.model_name_or_path].kind # "dir")
             => global_step' >= checkpoints[args'.model_name_or_path].global_step
      ]_vars

C7_Witness ==
    /\ runs = 2
    /\ Resumed(args)
    /\ start_step > 0
    /\ global_step > start_step
    /\ checkpoints[args.model_name_or_path].kind = "mid"

SavesIn(e, kinds) ==
    Cardinality({i \in 1..Len(savelog) :
                    savelog[i].epoch = e /\ savelog[i].kind \in kinds})

C10_MaxStepsIsCap ==
    (train_pc # "idle" /\ ~Resumed(args) /\ args.max_steps > 0)
        => global_step <= args.max_steps

\* ------------------------------------------------------------ restart, C12
\* C12: with start_again set, whatever path is given (an existing checkpoint
\* directory included), training starts at global_step 0, epoch 0, with no
\* batch to skip, and loads no optimizer or scheduler state.
C12_StartAgainIgnoresState ==
    (train_pc # "idle" /\ args.start_again)
        => /\ start_step = 0
           /\ epochs_trained = 0
           /\ steps_trained_in_current_epoch = 0
           /\ ~optimizer_loaded
           /\ global_step = updates
           /\ passlog # <<>> => (passlog[1].epoch = 0 /\ passlog[1].step = 0)

C12_Witness ==
    /\ train_pc = "steps"
    /\ passlog # <<>>
    /\ args.start_again
    /\ args.model_name_or_path \in DOMAIN checkpoints
    /\ checkpoints[args.model_name_or_path].kind \in {"mid", "end", "stop"}
    /\ ResumeStep(args.model_name_or_path) > 0

\* --------------------------------------------------- dynamic sampling, C16
\* The epochs whose loop body this run has entered.
EpochsBegun ==
    epochs_done \cup (IF train_pc \in {"steps", "epoch_end"} THEN {epoch} ELSE {})

EvalsIn(e) == Cardinality({i \in 1..Len(evallog) : evallog[i].epoch = e})

C18_EveryStopCheckpoints ==
    [][(train_pc \in {"steps", "epoch_end"} /\ train_pc' = "idle")
          => /\ in_epoch_iterator = "closed"
             /\ CheckpointDir(OutputDir, global_step) \in DOMAIN checkpoints']_vars

\* C18, amended: when max_steps is exceeded inside the loop, the iterator is
\* closed at once, and by the time train() leaves its epoch loop the
\* checkpoint named by the current global_step has been written, as the last
\* save of the run.
C18_MaxStepsStopCheckpoints ==
    /\ (train_pc = "epoch_end" /\ MaxStepsReached(global_step, args))
          => in_epoch_iterator = "closed"
    /\ (/\ train_pc \in {"return", "done"}
        /\ MaxStepsReached(global_step, args)
        /\ epochs_done # {})
          => /\ in_epoch_iterator = "closed"
             /\ CheckpointDir(OutputDir, global_step) \in DOMAIN checkpoints
             /\ checkpoints[CheckpointDir(OutputDir, global_step)].global_step
                    = global_step
             /\ Last(savelog).global_step = global_step

C18_Witness ==
    /\ train_pc = "done"
    /\ MaxStepsReached(global_step, args)
    /\ step < dataloader_len
    /\ passlog # <<>>
    /\ checkpoints[CheckpointDir(OutputDir, global_step)].kind = "stop"

\* ------------------------------------------------------ resume parsing, C20
\* The last component of the path is "checkpoint-" followed by digits.
IsCheckpointName(path) ==
    LET base == AfterLast(path, "/")
        k == Len(CheckpointPrefix)
    IN  /\ Len(base) > k
        /\ SubSeq(base, 1, k) = CheckpointPrefix
        /\ \A i \in k + 1..Len(base) : IsDigit(base[i])

\* C20: a run that continues from an existing path which is not a checkpoint
\* name fails; it never gets into the training loop.
C20_NoGuessedStep ==
    (/\ train_pc # "idle"
     /\ ContinuesFromCheckpoint(args, checkpoints)
     /\ ~IsCheckpointName(args.model_name_or_path))
        => train_pc = "failed"

\* ------------------------------------------------ the already-done guard, C11
\* What a run that does nothing shows: nothing loaded, no step, no
\* evaluation, no file written.
NothingDone ==
    /\ loaded = {}
    /\ ~trained
    /\ ~evaluated
    /\ written = {}
    /\ output_files = files_at_start

\* C11: an invocation with the arguments of the invocation before it, which
\* ran to its end and wrote results.json, exits successfully at the guard:
\* it loads nothing, trains and evaluates nothing, writes nothing.
C11_SecondRunIsNoOp ==
    rerun => (main_pc \in {"start", "guard", "exit_ok"} /\ NothingDone)

\* ------------------------------------------------------ batching mode, C13
\* C13: the assembler train() uses is decided by batch_type (any arguments
\* with the batch_type of this run get the assembler of this run), and no
\* training step runs with a batch_type outside the recognized set.
C13_BatchTypeDecidesAssembler ==
    /\ assembler # "none" =>
          \A a \in MainArgs :
              a.batch_type = main_args.batch_type => ChooseAssembler(a) = assembler
    /\ trained => main_args.batch_type \in RecognizedBatchTypes

\* ------------------------------------------------ configuration errors, C14
UnregisteredTask ==
    \E i \in 1..Len(main_args.task_names) : main_args.task_names[i] \notin processors

PopulatedWithoutOverwrite ==
    files_at_start # {} /\ ~main_args.overwrite_output_dir

\* The run has ended with an error, or is on its way to it, and has loaded
\* and written nothing.
FatalAtStartup ==
    /\ main_pc \in {"start", "guard", "tasks", "exit_error"}
    /\ NothingDone

\* C14 as stated: both configuration errors are fatal at startup whatever
\* do_train and do_eval are.
C14_ConfigErrorAlwaysFatal ==
    (main_pc # "off" /\ (UnregisteredTask \/ PopulatedWithoutOverwrite))
        => FatalAtStartup

\* C14, amended: a populated output directory without the overwrite flag is
\* fatal at startup when do_train is set, and an unregistered task name is
\* fatal at startup when the directory does not hold the already-done
\* marker; in both cases before anything is loaded, trained or written.
C14_CheckedConfigErrorFatal ==
    (/\ main_pc # "off"
     /\ \/ PopulatedWithoutOverwrite /\ main_args.do_train
        \/ UnregisteredTask /\ ~AlreadyDone(files_at_start))
        => FatalAtStartup

C14_Witness ==
    /\ main_pc = "exit_error"
    /\ UnregisteredTask
    /\ ~main_args.do_train
    /\ main_args.do_eval
    /\ "pytorch_model.bin" \in files_at_start

\* -------------------------------------------------- evaluation variants, C15
InferencesOf(i) == {j \in 1..Len(inferences) : inferences[j].task_index = i}

\* C15: when evaluate() returns, every mnli entry of task_names has had
\* inference run on both of its held-out variants (one per output
\* directory), full_results has a key for each of the two variants, and
\* every one of these inference calls ran with the label count of mnli.
C15_BothVariantsEvaluated ==
    eval_pc = "done" =>
        \A i \in 1..Len(eval_args.task_names) :
            eval_args.task_names[i] = "mnli" =>
                /\ {inferences[j].dir : j \in InferencesOf(i)} = {"", "-MM"}
                /\ Cardinality({k \in DOMAIN full_results : StripMM(k) = "mnli"}) = 2
                /\ \A j \in InferencesOf(i) :
                      inferences[j].num_labels = eval_args.num_label_list[i]

\* ---------------------------------------------------- the feature cache, C17
WritesOf(t) == Cardinality({i \in 1..Len(cache_writes) : cache_writes[i][2] = t})

Regenerated(t) == cache_at_start[t] = "absent" \/ overwrite_cache

\* Only rank 0 writes, and a rank other than 0 loads a cache file, or is
\* anywhere past the barrier at the head of load_and_cache_examples, only
\* when rank 0 is through with that task and the file is complete.
ReadersWaitForRank0 ==
    /\ \A i \in 1..Len(cache_writes) : cache_writes[i][1] = 0
    /\ \A r \in cache_reads : r.rank # 0 => (r.finished /\ r.state = "complete")
    /\ \A p \in Ranks \ {0} :
          dist_pc[p] \in {"check", "convert", "after"} => task_i[p] \in finished0

\* C17 as stated: when all the processes have loaded their training sets,
\* every task's cache file has been written by exactly one process, rank 0,
\* and no other rank has read it before rank 0 was through writing it.
C17_ExactlyOneWriterPerTask ==
    /\ ReadersWaitForRank0
    /\ (\A p \in Ranks : dist_pc[p] = "done")
          => \A t \in 1..n_tasks : WritesOf(t) = 1

\* C17, amended: a cache file is written by rank 0 only, once when it was
\* missing or overwrite_cache is set and not at all otherwise; the other
\* ranks are held at the barrier until rank 0 is through with the task.
C17_SingleWriterThenReaders ==
    /\ ReadersWaitForRank0
    /\ \A t \in 1..n_tasks :
          /\ WritesOf(t) <= 1
          /\ t \in finished0 => WritesOf(t) = (IF Regenerated(t) THEN 1 ELSE 0)

C17_Witness ==
    /\ \A p \in Ranks : dist_pc[p] = "done"
    /\ n_tasks = MaxTrainTasks
    /\ \E r \in cache_reads : r.rank # 0 /\ WritesOf(r.task) = 1
    /\ \E t \in 1..n_tasks : WritesOf(t) = 0

\* ------------------------------------------------------- fatal errors, C19
\* C19: a run that has ended with an error has written neither results.json
\* nor the marker file of the already-done guard, and the guard is as it
\* found it: unset if it was unset.
C19_ErrorLeavesNoResults ==
    main_pc = "exit_error" =>
        /\ "results.json" \notin written
        /\ Marker \notin written
        /\ AlreadyDone(output_files) <=> AlreadyDone(files_at_start)

C19_Witness ==
    /\ main_pc = "exit_error"
    /\ trained
    /\ "checkpoint" \in written
    /\ ~AlreadyDone(output_files)

\* ------------------------------------------------------ the step loss, C21
\* C21: whatever n_gpu is, a step whose batch was assembled raises nothing
\* in its forward passes, and the loss that is back-propagated is the sum
\* of the losses of all its sub-batches, each once, divided by the
\* accumulation window.
C21_LossIsSumOverWindow ==
    /\ step_pc # "error"
    /\ step_pc = "backward" =>
          /\ ~loss.is_none
          /\ loss.terms = [k \in 1..Len(batch_all) |-> k]
          /\ loss.divisor = step_args.gradient_accumulation_steps

\* ---------------------------------------------------- label cardinality, C22
\* The label counts of the tasks of the instances of the k-th forward pass.
LabelCountsOf(k) == {step_args.num_label_list[t + 1] : t \in dispatched[k]}

\* In evaluation every instance of a batch is of the task whose held-out
\* set is being read, task number task_index of the run.
EvalLabelsMatch ==
    \A j \in 1..Len(inferences) :
        inferences[j].num_labels = eval_args.num_label_list[inferences[j].task_index]

\* C22 as stated: at every forward pass, of training in either mode and of
\* evaluation, model.num_labels is the label count of the task of every
\* instance of the batch.
C22_LabelsMatchEveryInstance ==
    /\ \A k \in 1..Len(label_counts) : LabelCountsOf(k) = {label_counts[k]}
    /\ EvalLabelsMatch

\* C22, amended: that holds in evaluation, in split mode, and in dense mode
\* for a batch whose tasks all have the same label count; for a dense batch
\* of tasks with different label counts model.num_labels is the label count
\* of one of the tasks of the batch.
C22_LabelsMatchWhereHomogeneous ==
    /\ \A k \in 1..Len(label_counts) :
          /\ label_counts[k] \in LabelCountsOf(k)
          /\ (~step_args.dense \/ Cardinality(LabelCountsOf(k)) = 1)
                => LabelCountsOf(k) = {label_counts[k]}
    /\ EvalLabelsMatch

C22_Witness ==
    /\ step_pc = "backward"
    /\ step_args.dense
    /\ Cardinality(dispatched[1]) = 2
    /\ Cardinality(LabelCountsOf(1)) = 1

\* ------------------------------------------------- assembly is a partition, C27
\* The places <<k, j>> of the result that hold the instance of id i.
PlacesOf(i) ==
    {kj \in (1..Len(batch_all)) \X (1..MaxBatch + 1) :
        /\ kj[2] <= Len(batch_all[kj[1]][1])
        /\ batch_all[kj[1]][1][kj[2]] = i}

\* C27: for a non-empty raw batch the split-mode result has no empty
\* sub-batch and one sub-batch per task of the raw batch; every raw instance
\* is at exactly one place of it, under its own task; the sizes add up to
\* the size of the raw batch; and within a sub-batch the instances are in
\* raw-batch order (ids are raw-batch positions).
C27_AssemblyIsPartition ==
    (step_pc = "forward" /\ ~step_args.dense) =>
        /\ \A k \in 1..Len(batch_all) : Len(batch_all[k][1]) > 0
        /\ Len(batch_all) = Cardinality({Last(raw_batch[i]) : i \in 1..Len(raw_batch)})
        /\ \A i \in 1..Len(raw_batch) :
              /\ Cardinality(PlacesOf(raw_batch[i][1])) = 1
              /\ \A kj \in PlacesOf(raw_batch[i][1]) :
                    batch_all[kj[1]][2][kj[2]] = Last(raw_batch[i])
        /\ SumSeq([k \in 1..Len(batch_all) |-> Len(batch_all[k][1])]) = Len(raw_batch)
        /\ \A k \in 1..Len(batch_all) :
              \A j \in 1..(Len(batch_all[k][1]) - 1) :
                  batch_all[k][1][j] < batch_all[k][1][j + 1]

C27_Witness ==
    /\ step_pc = "forward"
    /\ ~step_args.dense
    /\ Len(raw_batch) = MaxBatch
    /\ Len(batch_all) = 2
    /\ Last(raw_batch[1]) = Last(raw_batch[3])
    /\ Last(raw_batch[1]) # Last(raw_batch[2])

\* ------------------------------------- the first epoch of the dynamic policy, C23
\* C23: in a run started from scratch with the dynamic policy, no evaluation
\* has been made and handed to the dataset while the first epoch is under
\* way; every evaluation of the run comes after the passes of its first epoch.
C23_NoEvaluationInFirstEpoch ==
    (/\ train_pc \in {"steps", "epoch_end"}
     /\ args.sampling_type = "dynamic"
     /\ ~Resumed(args)
     /\ epoch = 0) => evallog = <<>>

\* ------------------------------------------- checkpoints are written once, C24
\* C24: in a first run, and in a run resumed from a checkpoint, no save
\* targets a checkpoint directory that is already on disk.
C24_NeverWrittenAgain ==
    [][(/\ Len(savelog') > Len(savelog)
        /\ runs = 1 \/ Resumed(args))
          => CheckpointDir(OutputDir, savelog'[Len(savelog')].global_step)
                \notin DOMAIN checkpoints]_vars

\* -------------------------------------------- cache hit and fallback, C25
\* C25: when the call looks at the cache file, it takes the features of the
\* file if the file is there, can be read, and overwrite_cache is not set;
\* in every other case, that of a file that cannot be read included, it goes
\* on to make the features from the examples; and the call fails only while
\* making the features.
C25_CacheElseRegenerate ==
    [][/\ (load_pc = "check" /\ load_pc' # "check") =>
              LET file == cache_file[SplitOf(load_args.evaluate)]
              IN  IF file.state = "complete" /\ ~load_args.overwrite_cache
                  THEN load_pc' = "done" /\ features' = file.features
                  ELSE load_pc' = "convert"
       /\ (load_pc # "failed" /\ load_pc' = "failed") => load_pc = "convert"]_vars

\* ------------------------------------------------- the reduced run, C26
\* C26: a call of a run with short set that got its features has the first
\* two examples of the file (all of them, if there are fewer), and the run
\* has per_gpu_train_batch_size 2.
C26_ShortRunIsShort ==
    (load_pc = "done" /\ load_args.short) =>
        /\ features = SubSeq(Examples(n_examples), 1, IMin(2, n_examples))
        /\ load_args.per_gpu_train_batch_size = 2

\* ------------------------------------------------------ barriers pair up, C28
\* The barrier calls a rank has made when it stands where it stands: none
\* before the one around the loading of model and tokenizer, then one for each
\* load of a training set; rank 0 makes each call after its work, the other
\* ranks before theirs.
BarriersDue(p) ==
    IF p = 0
    THEN CASE dist_pc[p] \in {"start", "load_model"} -> 0
           [] dist_pc[p] = "wait_model" -> 1
           [] dist_pc[p] = "wait_after" -> 1 + task_i[p]
           [] OTHER -> task_i[p]
    ELSE CASE dist_pc[p] = "start" -> 0
           [] dist_pc[p] \in {"wait_main", "load_model"} -> 1
           [] dist_pc[p] \in {"task", "done"} -> task_i[p]
           [] OTHER -> 1 + task_i[p]

\* A rank other than 0 is at its work behind a barrier.
AtWork(p) == dist_pc[p] \in {"load_model", "check", "convert", "saving", "after"}

C28_Pairing ==
    /\ \A p \in Ranks : barriers[p] = BarriersDue(p)
    /\ \A p \in Ranks \ {0} :
          AtWork(p) =>
              /\ barriers[0] >= barriers[p]
              /\ dist_pc[p] # "load_model" => task_i[p] \in finished0
    /\ \A p \in Ranks : dist_pc[p] = "done" => barriers[p] = 1 + n_tasks

C29_SkipOnlyConsumes ==
    [][/\ (train_pc = "steps" /\ steps_trained_in_current_epoch > 0
             /\ train_pc' # "idle") =>
              /\ steps_trained_in_current_epoch' = steps_trained_in_current_epoch - 1
              /\ step' = step + 1
              /\ global_step' = global_step
              /\ updates' = updates
              /\ passlog' = passlog
              /\ checkpoints' = checkpoints
              /\ savelog' = savelog
              /\ optimizer_loaded' = optimizer_loaded
       /\ steps_trained_in_current_epoch' < dataloader_len'
       /\ (train_pc = "steps" /\ steps_trained_in_current_epoch = 0
             /\ train_pc' # "idle") =>
              /\ steps_trained_in_current_epoch' = 0
              /\ Len(passlog') = Len(passlog) + 1
       /\ (train_pc \in {"epochs", "epoch_end", "return"} /\ train_pc' # "idle") =>
              steps_trained_in_current_epoch' = steps_trained_in_current_epoch]_vars

\* a resumed run has skipped its batches and trains on the next one
C29_Witness ==
    /\ train_pc = "steps"
    /\ Resumed(args)
    /\ steps_trained_in_current_epoch = 0
    /\ step = 2
    /\ Len(passlog) = 1

\* -------------------------------------------------- no division by zero, C30
\* C30: whenever train() divides by steps-per-epoch (max_steps is set, or the
\* run continues from a checkpoint whose step was read) steps-per-epoch is
\* not 0, and global_step is not 0 when train() is about to return the
\* average loss.
C30_NoDivisionByZero ==
    /\ (/\ train_pc # "idle"
        /\ \/ args.max_steps > 0
           \/ /\ Resumed(args)
              /\ ResumeStep(args.model_name_or_path) # ParseError)
          => StepsPerEpoch(dataloader_len, args) # 0
    /\ train_pc = "return" => global_step # 0

\* ------------------------------------------ the full run after a reduced one, C32
\* C32: a call of a run without short that got its features has every
\* example of the file, whatever runs came before over the same directory.
C32_FullRunIsFull ==
    (load_pc = "done" /\ ~load_args.short) => features = Examples(n_examples)

\* ------------------------------------------- results.json is written once, C31
\* C31: with do_eval set, only rank 0 writes to results.json and it does so
\* at most once; when every process is through, the file has been written
\* exactly once and holds the results of rank 0.
C31_WrittenOnceByRankZero ==
    res_args.do_eval =>
        /\ Len(results_writes) <= 1
        /\ \A i \in 1..Len(results_writes) : results_writes[i] = 0
        /\ (\A p \in Ranks : res_pc[p] = "done") =>
              /\ Len(results_writes) = 1
              /\ results_json = [exists |-> TRUE, content |-> res_results[0]]
====
